---- MODULE Spec2Model ----
(***************************************************************************)
(* Model of the sidecar bridge of omniagentpay-js (class Bridge): the      *)
(* worker lifecycle (start / stop / exit), the request registry            *)
(* (requestId, pendingRequests), the dispatcher (send) and the frame       *)
(* decoder (handleData / resolveRequest).                                  *)
(*                                                                         *)
(* Text is a sequence of one-character strings.  A JSON member of a        *)
(* response object is abbreviated to one character: a digit d stands for   *)
(* the member "id":d, "r" for a "result" member with the value true, "n"   *)
(* for one with the value null, "f" for one with the value false, "e" for  *)
(* an "error" member holding an object with a code and a message; E_ACUTE  *)
(* and REPLACEMENT are characters of the string value of a "result"        *)
(* member.  The bytes a worker writes are the ASCII characters themselves  *)
(* plus the two bytes LEAD, CONT that encode E_ACUTE in UTF-8.             *)
(***************************************************************************)
EXTENDS Integers, Sequences, FiniteSets, TLC

\* ---------------------------------------------------------------- bounds
MaxWorkers == 2   \* worker processes spawned over the life of the bridge
MaxSends == 2     \* send() calls made by the host
MaxBuf == 1       \* characters kept in the accumulation buffer
MaxText == 6      \* characters of worker output the decoder is fed
MaxFrames == 2    \* response lines a worker writes to its pipe

Workers == 1..MaxWorkers
WireIds == 1..(MaxSends + 1)
Methods == {"health"}
Params == {"{}"}

\* ------------------------------------------------------------------ text
NL == "\n"
Digits == <<"1", "2", "3", "4", "5", "6", "7", "8", "9">>
IdChars == {Digits[i] : i \in WireIds}
IdVal(c) == CHOOSE i \in WireIds : Digits[i] = c
WhiteSpace == {" ", NL}

\* a two-byte character, its bytes, and what an undecodable byte becomes
E_ACUTE == "é"
LEAD == "0xC3"
CONT == "0xA9"
REPLACEMENT == "0xFFFD"

\* Buffer.prototype.toString of one chunk of bytes (UTF-8): a lead byte
\* followed by its continuation byte is the character, a lead byte without
\* it or a continuation byte alone is the replacement character
RECURSIVE toString(_)
toString(bytes) ==
    IF bytes = <<>> THEN <<>>
    ELSE IF Head(bytes) = LEAD
    THEN IF Len(bytes) >= 2 /\ bytes[2] = CONT
         THEN <<E_ACUTE>> \o toString(SubSeq(bytes, 3, Len(bytes)))
         ELSE <<REPLACEMENT>> \o toString(Tail(bytes))
    ELSE IF Head(bytes) = CONT
    THEN <<REPLACEMENT>> \o toString(Tail(bytes))
    ELSE <<Head(bytes)>> \o toString(Tail(bytes))

\* a response line as the worker writes it
Frame(id, member) == <<"{", Digits[id], member, "}", NL>>

\* the bytes of a response line with any members
ByteFrame(id, members) == <<"{", id>> \o members \o <<"}", NL>>

\* the chunks one 'data' event of a worker's stdout can carry: a whole
\* response line, the start of a line, the end of a line
Chunks ==
    {Frame(id, m) : id \in WireIds, m \in {"r", "e"}}
    \cup {<<"{">>, <<NL>>}

\* String.prototype.split('\n'): the segments between the terminators
RECURSIVE split(_)
split(s) ==
    IF \A i \in 1..Len(s) : s[i] # NL
    THEN <<s>>
    ELSE LET k == CHOOSE i \in 1..Len(s) :
                      s[i] = NL /\ \A j \in 1..(i - 1) : s[j] # NL
         IN <<SubSeq(s, 1, k - 1)>> \o split(SubSeq(s, k + 1, Len(s)))

\* String.prototype.trim
RECURSIVE trimStart(_)
trimStart(s) ==
    IF s # <<>> /\ Head(s) \in WhiteSpace THEN trimStart(Tail(s)) ELSE s

RECURSIVE trimEnd(_)
trimEnd(s) ==
    IF s # <<>> /\ s[Len(s)] \in WhiteSpace
    THEN trimEnd(SubSeq(s, 1, Len(s) - 1)) ELSE s

trimEndOnly(s) == trimEnd(s)

trim(s) == trimEnd(trimStart(s))

startsWithAnywhere(s, c) == \E i \in 1..Len(s) : s[i] = c

startsWith(s, c) == s # <<>> /\ Head(s) = c

\* the characters that stand for (a part of) a "result" member
ValueChars == {"r", "n", "f", E_ACUTE, REPLACEMENT}

RECURSIVE valueOf(_)
valueOf(s) ==
    IF s = <<>> THEN <<>>
    ELSE IF Head(s) \in ValueChars THEN <<Head(s)>> \o valueOf(Tail(s))
    ELSE valueOf(Tail(s))

\* JSON.parse of a trimmed line: an object is '{' members '}', blanks
\* between members are skipped, a repeated id keeps its last value.
\* id = 0 stands for an absent id, value = <<>> for an absent result.
JSONparse(s) ==
    LET n == Len(s)
        wellFormed ==
            /\ n >= 2
            /\ s[1] = "{"
            /\ s[n] = "}"
            /\ \A i \in 2..(n - 1) :
                   s[i] \in IdChars \cup ValueChars \cup {"e", " "}
        idPos == {i \in 2..(n - 1) : s[i] \in IdChars}
        last == CHOOSE i \in idPos : \A j \in idPos : j <= i
    IN IF ~wellFormed
       THEN [ok |-> FALSE, id |-> 0, result |-> FALSE, error |-> FALSE,
             value |-> <<>>]
       ELSE [ok |-> TRUE,
             id |-> IF idPos = {} THEN 0 ELSE IdVal(s[last]),
             result |-> \E i \in 2..(n - 1) : s[i] \in ValueChars,
             error |-> \E i \in 2..(n - 1) : s[i] = "e",
             value |-> valueOf(s)]

\* ----------------------------------------------------------------- state
VARIABLES
    binaryPath,       \* constructor argument: "" (absent) or "explicit"
    fs,               \* the candidate paths at which an executable exists
    child,            \* this.child: 0 is null, else the worker it refers to
    requestId,        \* this.requestId
    pendingRequests,  \* this.pendingRequests: id -> the promise of a send()
    buffer,           \* this.buffer
    procs,            \* the worker processes spawned by this bridge
    promises,         \* one entry per send() call: arguments, id, settlements
    pipe,             \* bytes a worker has written that are still to arrive
    delivered,        \* the bytes the deliver actions have handed over so far
    trace,            \* what the decoder did with them: the lines it handled
    calls,            \* the facade operations called: name, params, promise
    other,            \* the fields of a second Bridge instance of the host
    env               \* process.env of the host: the credential variables

vars == <<binaryPath, fs, child, requestId, pendingRequests, buffer,
          procs, promises, pipe, delivered, trace, calls, other, env>>

\* the record of the decoder's work, kept by the deliver actions only
decoderVars == <<pipe, delivered, trace>>

\* what lies outside this Bridge instance: the facade, the other instance
\* and the environment of the host process
hostVars == <<calls, other, env>>

Paths == {"explicit", "dev", "prod"}

\* Map<number, ...>: a function on the keys present
EmptyMap == [k \in {} |-> 0]
MapSet(m, k, v) == [i \in DOMAIN m \cup {k} |-> IF i = k THEN v ELSE m[i]]
MapDelete(m, k) == [i \in DOMAIN m \ {k} |-> m[i]]

\* the credential variables of an environment, "" when not set
HostEnv == [CIRCLE_API_KEY |-> "", ENTITY_SECRET |-> ""]

\* a worker: st is "none" (not spawned), "running", "failed" (spawn could
\* not run the executable) or "exited"; killed: kill() was called on it;
\* path: the executable; by: the caller of start(); stdin: what was written;
\* env: the environment it was spawned with
NoProc == [st |-> "none", killed |-> FALSE, path |-> "", by |-> "",
           stdin |-> <<>>, env |-> HostEnv]

NoTrace == [cut |-> FALSE, handled |-> <<>>, diag |-> <<>>]

Spawned == {w \in Workers : procs[w].st # "none"}
Live == {w \in Workers : procs[w].st = "running"}

\* a Bridge instance as the field initialisers leave it
NewBridge(name, path) ==
    [name |-> name, binaryPath |-> path, child |-> 0, requestId |-> 0,
     pendingRequests |-> EmptyMap, buffer |-> <<>>,
     procs |-> [w \in Workers |-> NoProc], promises |-> <<>>]

\* no facade call was made; the second instance is never used; the client
\* was constructed without credentials
Alone ==
    /\ calls = <<>>
    /\ other = NewBridge("b", "")
    /\ env = HostEnv

\* the bridge as constructed: no worker, no request, empty buffer
Constructed ==
    /\ child = 0
    /\ requestId = 0
    /\ pendingRequests = EmptyMap
    /\ buffer = <<>>
    /\ procs = [w \in Workers |-> NoProc]
    /\ promises = <<>>
    /\ pipe = <<>>
    /\ delivered = <<>>
    /\ trace = NoTrace
    /\ Alone

\* the installations the bridge is run in: the installed executable alone,
\* no executable at all, an explicit path that holds no executable
Installations ==
    {<<"", {"prod"}>>, <<"", {}>>, <<"explicit", {}>>}

Init ==
    /\ \E inst \in Installations :
          /\ binaryPath = inst[1]
          /\ fs = inst[2]
    /\ Constructed

\* every combination of constructor argument and existing executables
InitLaunch ==
    /\ binaryPath \in {"", "explicit"}
    /\ fs \in SUBSET Paths
    /\ Constructed

\* ------------------------------------------------------ process supervisor
\* getBinaryPath: the path to spawn, or "" when it throws
getBinaryPathFallback ==
    IF binaryPath # "" THEN binaryPath
    ELSE IF "dev" \in fs THEN "dev"
    ELSE "prod"

getBinaryPathProdFirst ==
    IF binaryPath # "" THEN binaryPath
    ELSE IF "prod" \in fs THEN "prod"
    ELSE IF "dev" \in fs THEN "dev"
    ELSE ""

getBinaryPath ==
    IF binaryPath # "" THEN binaryPath
    ELSE IF "dev" \in fs THEN "dev"
    ELSE IF "prod" \in fs THEN "prod"
    ELSE ""

\* child_process.spawn: the handle is returned also when the executable
\* cannot be run; such a worker never runs ("failed"); the worker is given
\* process.env as it is at this moment
spawn(w, path, by) ==
    [procs EXCEPT ![w] = [st |-> IF path \in fs THEN "running" ELSE "failed",
                          killed |-> FALSE, path |-> path, by |-> by,
                          stdin |-> <<>>, env |-> env]]

NextWorker == Cardinality(Spawned) + 1

\* the effect of Bridge.start() on (child, procs), given who called it
startProcs(by) == spawn(NextWorker, getBinaryPath, by)
startChild == NextWorker

\* the host calls start()
start ==
    /\ NextWorker \in Workers
    /\ IF getBinaryPath = ""
       THEN UNCHANGED <<child, procs>>
       ELSE /\ procs' = startProcs("start")
            /\ child' = startChild
    /\ UNCHANGED <<binaryPath, fs, requestId, pendingRequests, buffer,
                   promises, decoderVars, hostVars>>

\* the host calls stop(): kill() signals the worker (which exits when it
\* gets to it), the handle is dropped
stopProcsKeep == procs

stopProcs ==
    IF child # 0 THEN [procs EXCEPT ![child].killed = TRUE] ELSE procs

stop ==
    /\ procs' = stopProcs
    /\ child' = 0
    /\ UNCHANGED <<binaryPath, fs, requestId, pendingRequests, buffer,
                   promises, decoderVars, hostVars>>

\* worker w exits: the 'exit' listener installed by start() runs
exitProcsRestart(w) ==
    IF NextWorker \in Workers
    THEN [spawn(NextWorker, procs[w].path, "exit") EXCEPT ![w].st = "exited"]
    ELSE [procs EXCEPT ![w].st = "exited"]

exitProcs(w) == [procs EXCEPT ![w].st = "exited"]

onExit(w) ==
    /\ w \in Live
    /\ procs' = exitProcs(w)
    /\ child' = 0
    /\ UNCHANGED <<binaryPath, fs, requestId, pendingRequests, buffer,
                   promises, decoderVars, hostVars>>


\* worker w could not be executed: the 'error' listener installed by start()
\* runs; it logs and emits 'error' on the bridge, which throws when the
\* host has registered no listener for it
onError(w) ==
    /\ procs[w].st = "failed"
    /\ \E listening \in BOOLEAN :
          procs' = [procs EXCEPT
                       ![w].st = IF listening THEN "errored" ELSE "uncaught"]
    /\ UNCHANGED <<binaryPath, fs, child, requestId, pendingRequests, buffer,
                   promises, decoderVars, hostVars>>

\* ------------------------------------------------------- request registry
NoResponse == [ok |-> FALSE, id |-> 0, result |-> FALSE, error |-> FALSE,
               value |-> <<>>]

\* the members of the error object of a response
ErrorMembers(response) ==
    IF response.error THEN {"code", "message"} ELSE {}

\* the call of resolve(result) or reject(new Error(error.message)) a
\* response leads to: value is the value resolved with, carries the
\* members of the response's error object that the Error holds
settleTruthy(response) ==
    [kind |-> IF response.error THEN "reject" ELSE "resolve",
     src |-> "frame",
     response |-> response,
     value |-> IF response.error \/ response.value \in {<<"n">>, <<"f">>}
               THEN <<>> ELSE response.value,
     carries |-> ErrorMembers(response) \cap {"message"}]


settleResultFirst(response) ==
    [kind |-> IF response.error /\ ~response.result
              THEN "reject" ELSE "resolve",
     src |-> "frame",
     response |-> response,
     value |-> IF response.error /\ ~response.result
               THEN <<>> ELSE response.value,
     carries |-> ErrorMembers(response) \cap {"message"}]

settle(response) ==
    [kind |-> IF response.error THEN "reject" ELSE "resolve",
     src |-> "frame",
     response |-> response,
     value |-> IF response.error THEN <<>> ELSE response.value,
     carries |-> ErrorMembers(response) \cap {"message"}]

\* resolveRequest: st carries the pending map and the promises
resolveRequestOldest(st, response) ==
    IF DOMAIN st.pending # {}
    THEN LET id == CHOOSE i \in DOMAIN st.pending :
                       \A j \in DOMAIN st.pending : i <= j
             request == st.pending[id]
             call == settle(response)
         IN [st EXCEPT
               !.promises[request].settled = Append(@, call),
               !.pending = MapDelete(st.pending, id)]
    ELSE st

resolveRequestAll(st, response) ==
    IF response.id \in DOMAIN st.pending
    THEN [st EXCEPT
            !.promises =
                [p \in 1..Len(st.promises) |->
                    IF \E i \in DOMAIN st.pending : st.pending[i] = p
                    THEN [st.promises[p] EXCEPT
                            !.settled = Append(@, settle(response))]
                    ELSE st.promises[p]],
            !.pending = EmptyMap]
    ELSE st



resolveRequestKeep(st, response) ==
    LET id == response.id
    IN IF id \in DOMAIN st.pending
       THEN LET request == st.pending[id]
                call == settle(response)
            IN [st EXCEPT !.promises[request].settled = Append(@, call)]
       ELSE st

resolveRequestStrict(st, response) ==
    LET id == response.id
    IN IF id \in DOMAIN st.pending /\ (response.result \/ response.error)
       THEN LET request == st.pending[id]
                call == settle(response)
            IN [st EXCEPT
                  !.promises[request].settled = Append(@, call),
                  !.pending = MapDelete(st.pending, id)]
       ELSE st

resolveRequest(st, response) ==
    LET id == response.id
    IN IF id \in DOMAIN st.pending
       THEN LET request == st.pending[id]
                call == settle(response)
            IN [st EXCEPT
                  !.promises[request].settled = Append(@, call),
                  !.pending = MapDelete(st.pending, id)]
       ELSE st

\* ---------------------------------------------------------- frame decoder
\* the body of the for loop of handleData for one complete line; handled
\* notes what became of the line: "skip", "log", "rpc" or "invalid"
handleLine(st, line) ==
    LET trimmed == trim(line)
    IN IF trimmed = <<>>
       THEN [st EXCEPT !.handled = Append(@, [line |-> line, as |-> "skip"])]
       ELSE IF ~startsWith(trimmed, "{")
       THEN [st EXCEPT
               !.diag = Append(@, [kind |-> "log", text |-> trimmed]),
               !.handled = Append(@, [line |-> line, as |-> "log"])]
       ELSE LET response == JSONparse(trimmed)
            IN IF response.ok
               THEN [resolveRequest(st, response) EXCEPT
                        !.rpc = Append(@, response),
                        !.handled = Append(@, [line |-> line, as |-> "rpc"])]
               ELSE [st EXCEPT
                        !.diag = Append(@, [kind |-> "invalid",
                                            text |-> trimmed]),
                        !.handled = Append(@, [line |-> line,
                                               as |-> "invalid"])]

RECURSIVE handleLinesAbort(_, _)
handleLinesAbort(st, lines) ==
    IF lines = <<>> THEN st
    ELSE LET st1 == handleLine(st, Head(lines))
         IN IF st1.handled[Len(st1.handled)].as = "invalid" THEN st1
            ELSE handleLinesAbort(st1, Tail(lines))

RECURSIVE handleLines(_, _)
handleLines(st, lines) ==
    IF lines = <<>> THEN st
    ELSE handleLines(handleLine(st, Head(lines)), Tail(lines))

\* handleData on the bridge state b = [buffer, pending, promises]: the
\* bridge state after the chunk and what the chunk made the decoder do
handleDataFromNoCarry(b, chunk) ==
    LET lines == split(chunk)
        st0 == [pending |-> b.pending, promises |-> b.promises,
                diag |-> <<>>, rpc |-> <<>>, handled |-> <<>>]
        st1 == handleLines(st0, SubSeq(lines, 1, Len(lines) - 1))
    IN [buffer |-> lines[Len(lines)],
        pending |-> st1.pending,
        promises |-> st1.promises,
        diag |-> st1.diag,
        rpc |-> st1.rpc,
        handled |-> st1.handled]

handleDataFromDropTail(b, chunk) ==
    LET lines == split(b.buffer \o chunk)
        st0 == [pending |-> b.pending, promises |-> b.promises,
                diag |-> <<>>, rpc |-> <<>>, handled |-> <<>>]
        st1 == handleLines(st0, SubSeq(lines, 1, Len(lines) - 1))
    IN [buffer |-> <<>>,
        pending |-> st1.pending,
        promises |-> st1.promises,
        diag |-> st1.diag,
        rpc |-> st1.rpc,
        handled |-> st1.handled]

handleDataFrom(b, chunk) ==
    LET lines == split(b.buffer \o chunk)
        st0 == [pending |-> b.pending, promises |-> b.promises,
                diag |-> <<>>, rpc |-> <<>>, handled |-> <<>>]
        st1 == handleLines(st0, SubSeq(lines, 1, Len(lines) - 1))
    IN [buffer |-> lines[Len(lines)],
        pending |-> st1.pending,
        promises |-> st1.promises,
        diag |-> st1.diag,
        rpc |-> st1.rpc,
        handled |-> st1.handled]

\* handleData: the bridge state after one chunk
handleData(chunk) ==
    handleDataFrom([buffer |-> buffer, pending |-> pendingRequests,
                    promises |-> promises], chunk)

\* the workers whose stdout can still deliver data: the running ones and
\* the exited ones (what they wrote before exiting drains from the pipe)
Receiving == {w \in Workers : procs[w].st \in {"running", "exited"}}

\* the stdout 'data' listener installed by start(): every worker's listener
\* calls handleData of the one bridge with data.toString()
onData(chunk) ==
    /\ Receiving # {}
    /\ \E r \in {handleData(toString(chunk))} :
          /\ Len(r.buffer) <= MaxBuf
          /\ buffer' = r.buffer
          /\ pendingRequests' = r.pending
          /\ promises' = r.promises
    /\ UNCHANGED <<binaryPath, fs, child, requestId, procs, decoderVars,
                   hostVars>>

\* the same listener, keeping the record of what arrived and of what the
\* decoder did with it
receive(bytes) ==
    /\ Receiving # {}
    /\ \E r \in {handleData(toString(bytes))} :
          /\ buffer' = r.buffer
          /\ pendingRequests' = r.pending
          /\ promises' = r.promises
          /\ trace' = [cut |-> delivered # <<>>,
                       handled |-> trace.handled \o r.handled,
                       diag |-> trace.diag \o r.diag]
    /\ delivered' = delivered \o bytes
    /\ UNCHANGED <<binaryPath, fs, child, requestId, procs, hostVars>>

\* the characters of the worker output the decoder is fed
DecodeChars == {"{", "1", "}", " ", NL}

\* a 'data' event with any text as its chunk
deliverText ==
    \E n \in 1..(MaxText - Len(delivered)) :
        \E c \in [1..n -> DecodeChars] :
            /\ receive(c)
            /\ pipe' = pipe

\* a 'data' event with the next bytes of the pipe, however many, as its chunk
deliverPipe ==
    /\ pipe # <<>>
    /\ \E n \in 1..Len(pipe) :
          /\ receive(SubSeq(pipe, 1, n))
          /\ pipe' = SubSeq(pipe, n + 1, Len(pipe))


\* ------------------------------------------------------------------ worker
\* the ids of the response lines written so far
Answered ==
    {c \in IdChars : \E i \in 1..Len(delivered \o pipe) :
                         (delivered \o pipe)[i] = c}

\* a running worker answers a request line on its input that has no answer
\* yet: it writes one response line with the same id, a result or an error
workerReply(w) ==
    /\ procs[w].st = "running"
    /\ \E k \in 1..Len(procs[w].stdin), m \in {<<"r">>, <<"e">>} :
          LET id == procs[w].stdin[k][1][4][2]
          IN /\ Digits[id] \notin Answered
             /\ pipe' = pipe \o ByteFrame(Digits[id], m)
    /\ UNCHANGED <<binaryPath, fs, child, requestId, pendingRequests, buffer,
                   procs, promises, delivered, trace, hostVars>>


\* the beginning of a log line, written without its line terminator
PartialLine == <<"l", "o">>

\* a running worker terminates in the middle of writing a line: the part
\* it wrote is in its pipe, the 'exit' listener installed by start() runs
workerAbort(w) ==
    /\ w \in Live
    /\ pipe' = pipe \o PartialLine
    /\ procs' = exitProcs(w)
    /\ child' = 0
    /\ UNCHANGED <<binaryPath, fs, requestId, pendingRequests, buffer,
                   promises, delivered, trace, hostVars>>

\* -------------------------------------------------------------- dispatcher
\* the id send() allocates
allocIdFromSize == Cardinality(DOMAIN pendingRequests) + 1

allocIdShared ==
    (IF requestId >= other.requestId THEN requestId ELSE other.requestId) + 1

allocId == requestId + 1

\* send() starts the worker when it holds no handle
needsStartAlways == TRUE

needsStart == child = 0

\* JSON.stringify(request): the members of the request object in the
\* order the object literal lists them
JSONstringifyNoParams(method, params, id) ==
    <<<<"jsonrpc", "2.0">>, <<"method", method>>, <<"id", id>>>>

JSONstringify(method, params, id) ==
    <<<<"jsonrpc", "2.0">>, <<"method", method>>, <<"params", params>>,
      <<"id", id>>>>

\* JSON.stringify(request) + '\n'
requestLine(method, params, id) ==
    <<JSONstringify(method, params, id), NL>>

\* the calls of stdin.write one send() makes, each with what it hands over
stdinWritesTwo(method, params, id) ==
    <<<<JSONstringify(method, params, id)>>, <<NL>>>>


stdinWritesAhead(method, params, id) ==
    <<requestLine(method, params, id + 1)>>

stdinWrites(method, params, id) == <<requestLine(method, params, id)>>

LaunchRejection ==
    [kind |-> "reject", src |-> "launch", response |-> NoResponse,
     value |-> <<>>, carries |-> {"message"}]

\* the body of send(method, params)
request(method, params) ==
    /\ Len(promises) < MaxSends
    /\ needsStart => NextWorker \in Workers
    /\ IF needsStart /\ getBinaryPath = ""
       THEN /\ promises' = Append(promises,
                               [method |-> method, params |-> params,
                                id |-> 0, settled |-> <<LaunchRejection>>])
            /\ UNCHANGED <<child, requestId, pendingRequests, procs>>
       ELSE LET procs1 == IF needsStart THEN startProcs("send") ELSE procs
                child1 == IF needsStart THEN startChild ELSE child
                id == allocId
            IN /\ id <= MaxSends
               /\ requestId' = id
               /\ pendingRequests' =
                      MapSet(pendingRequests, id, Len(promises) + 1)
               /\ promises' = Append(promises,
                                     [method |-> method, params |-> params,
                                      id |-> id, settled |-> <<>>])
               /\ procs' = [procs1 EXCEPT ![child1].stdin =
                                @ \o stdinWrites(method, params, id)]
               /\ child' = child1
    /\ UNCHANGED <<binaryPath, fs, buffer, decoderVars>>

\* the host calls send(method, params) of the bridge
send(method, params) ==
    /\ request(method, params)
    /\ UNCHANGED hostVars


\* ------------------------------------------------------------------ facade
\* the operations of the facade OmniAgentPay that are modelled, with the
\* params a caller gives ("" for health(), which takes none)
Operations == {"pay", "detectMethod", "health"}
FacadeInputs ==
    {<<op, p>> : op \in {"pay", "detectMethod"}, p \in {"{}", "{amount:1}"}}
    \cup {<<"health", "">>}

\* the first and the second argument of the operation's bridge.send
RemoteMethod(op) ==
    CASE op = "pay" -> "pay"
      [] op = "detectMethod" -> "detect_method"
      [] op = "health" -> "health"

sendParams(op, params) == IF op = "health" THEN "{}" ELSE params

\* what the promise returned by the operation is settled with when the
\* promise of its send is settled with call: the operations return that
\* promise, detectMethod awaits it and returns the value under a type cast
completionCaught(op, call) ==
    IF op = "detectMethod" /\ call.kind = "reject"
    THEN [call EXCEPT !.kind = "resolve", !.carries = {}]
    ELSE call

completion(op, call) == call

\* the host calls an operation of the facade
facadeCall(op, params) ==
    /\ request(RemoteMethod(op), sendParams(op, params))
    /\ calls' = Append(calls, [op |-> op, params |-> params,
                               promise |-> Len(promises) + 1])
    /\ UNCHANGED <<other, env>>


\* ----------------------------------------------------------- two instances
\* the instance the variables stand for, as a record of its fields
ThisBridge(name) ==
    [name |-> name, binaryPath |-> binaryPath, child |-> child,
     requestId |-> requestId, pendingRequests |-> pendingRequests,
     buffer |-> buffer, procs |-> procs, promises |-> promises]

\* the host turns to its other Bridge instance: from now on the variables
\* stand for the fields of that instance, and other for those of this one
switch ==
    /\ other' = ThisBridge(IF other.name = "a" THEN "b" ELSE "a")
    /\ binaryPath' = other.binaryPath
    /\ child' = other.child
    /\ requestId' = other.requestId
    /\ pendingRequests' = other.pendingRequests
    /\ buffer' = other.buffer
    /\ procs' = other.procs
    /\ promises' = other.promises
    /\ UNCHANGED <<fs, decoderVars, calls, env>>


\* ------------------------------------------------------------- credentials
\* the name of the instance the variables stand for
ThisName == IF other.name = "a" THEN "b" ELSE "a"

\* the credentials the host passes to the constructors of its two clients
Config(name) ==
    IF name = "a"
    THEN [apiKey |-> "keyA", entitySecret |-> "secretA"]
    ELSE [apiKey |-> "keyB", entitySecret |-> "secretB"]

\* the constructor of OmniAgentPay on process.env: a credential that is
\* given is written to its variable
construct(e, config) ==
    [CIRCLE_API_KEY |-> IF config.apiKey # "" THEN config.apiKey
                        ELSE e.CIRCLE_API_KEY,
     ENTITY_SECRET |-> IF config.entitySecret # "" THEN config.entitySecret
                       ELSE e.ENTITY_SECRET]

\* ---------------------------------------------------------- specification
Next ==
    \/ start
    \/ stop
    \/ \E m \in Methods, p \in Params : send(m, p)
    \/ \E w \in Workers : onExit(w)
    \/ \E c \in Chunks : onData(c)

Spec == Init /\ [][Next]_vars

\* the supervisor and the dispatcher over every installation, with a
\* worker that writes nothing: the launch claims
NextLaunch ==
    \/ start
    \/ stop
    \/ \E m \in Methods, p \in Params : send(m, p)
    \/ \E w \in Workers : onExit(w)

SpecLaunch == InitLaunch /\ [][NextLaunch]_vars

\* the supervisor and the dispatcher with the host sending several methods
\* and parameter objects: the request-frame claims
SendMethods == {"health", "pay"}
SendParams == {"{}", "{amount:1}"}

NextSend ==
    \/ start
    \/ stop
    \/ \E m \in SendMethods, p \in SendParams : send(m, p)
    \/ \E w \in Workers : onExit(w)

SpecSend == Init /\ [][NextSend]_vars

\* the bridge with one request outstanding: an installed bridge after its
\* first send("health", {})
DecodeStart ==
    [buffer |-> <<>>,
     pending |-> MapSet(EmptyMap, 1, 1),
     promises |-> <<[method |-> "health", params |-> "{}", id |-> 1,
                     settled |-> <<>>]>>]

OneRequestPending ==
    /\ binaryPath = ""
    /\ fs = {"prod"}
    /\ child = 1
    /\ requestId = 1
    /\ pendingRequests = DecodeStart.pending
    /\ buffer = DecodeStart.buffer
    /\ procs = [w \in Workers |->
                   IF w = 1
                   THEN [st |-> "running", killed |-> FALSE, path |-> "prod",
                         by |-> "send",
                         stdin |-> stdinWrites("health", "{}", 1),
                         env |-> HostEnv]
                   ELSE NoProc]
    /\ promises = DecodeStart.promises

InitDecode ==
    /\ OneRequestPending
    /\ pipe = <<>>
    /\ delivered = <<>>
    /\ trace = NoTrace
    /\ Alone

\* the frame decoder fed every text up to MaxText characters, cut into
\* chunks in every way
NextDecode == deliverText

SpecDecode == InitDecode /\ [][NextDecode]_vars

\* the response lines a worker can write while request 1 is outstanding:
\* for id 1 or for an id never issued, with no member, a result, an error
\* or a string holding a two-byte character
FrameIds == {"1", "2"}
Members == {<<>>, <<"r">>, <<"n">>, <<"f">>, <<"e">>, <<LEAD, CONT>>}
ByteFrames == {ByteFrame(i, m) : i \in FrameIds, m \in Members}

RECURSIVE PipesOf(_)
PipesOf(n) ==
    IF n = 0 THEN {<<>>}
    ELSE LET P == PipesOf(n - 1)
         IN P \cup {p \o f : p \in P, f \in ByteFrames}

InitFrames ==
    /\ OneRequestPending
    /\ pipe \in PipesOf(MaxFrames) \ {<<>>}
    /\ delivered = <<>>
    /\ trace = NoTrace
    /\ Alone

\* the bridge receiving up to MaxFrames response lines, cut into chunks
\* between any two bytes
NextFrames == deliverPipe

SpecFrames == InitFrames /\ [][NextFrames]_vars


\* the worker's output of the start-up scenario: a log line whose text
\* arrives in two parts, then one response line
ChunkA == <<"l", "o", "g", ":", " ", "s", "t", "a", "r", "t">>
ChunkB(frame) == <<"i", "n", "g", " ", "u", "p", NL>> \o frame

InitStream ==
    /\ OneRequestPending
    /\ pipe \in {ChunkA \o ChunkB(f) : f \in ByteFrames}
    /\ delivered = <<>>
    /\ trace = NoTrace
    /\ Alone

\* the bridge receiving that output, cut into chunks between any two bytes
NextStream == deliverPipe

SpecStream == InitStream /\ [][NextStream]_vars


\* the supervisor and the dispatcher with the process error event of a
\* worker that could not be executed
NextError ==
    \/ start
    \/ stop
    \/ \E m \in Methods, p \in Params : send(m, p)
    \/ \E w \in Workers : onExit(w)
    \/ \E w \in Workers : onError(w)

SpecError == Init /\ [][NextError]_vars


\* the facade over the bridge: operations, stop(), the worker's exit and
\* whole response lines from the worker
FacadeChunks == {Frame(id, m) : id \in WireIds, m \in {"r", "e"}}

NextFacade ==
    \/ \E i \in FacadeInputs : facadeCall(i[1], i[2])
    \/ stop
    \/ \E w \in Workers : onExit(w)
    \/ \E c \in FacadeChunks : onData(c)

SpecFacade == Init /\ [][NextFacade]_vars


\* two Bridge instances of one host, each with its own workers: every
\* operation and event acts on the instance the host has turned to; the
\* host makes MaxSends calls of send() in all
NextTwo ==
    \/ /\ Len(promises) + Len(other.promises) < MaxSends
       /\ \E m \in Methods, p \in Params : send(m, p)
    \/ stop
    \/ \E w \in Workers : onExit(w)
    \/ \E c \in FacadeChunks : onData(c)
    \/ switch

SpecTwo == Init /\ [][NextTwo]_vars


\* a session: the host sends and stops, a worker answers the requests it
\* was sent, its output arrives in chunks cut anywhere, also after its exit
NextSession ==
    \/ \E m \in Methods, p \in Params : send(m, p)
    \/ stop
    \/ \E w \in Workers : onExit(w)
    \/ \E w \in Workers : workerReply(w)
    \/ deliverPipe

SpecSession == Init /\ [][NextSession]_vars



\* the bridge with two requests outstanding: an installed bridge after two
\* send("health", {})
TwoRequestsPending ==
    /\ binaryPath = ""
    /\ fs = {"prod"}
    /\ child = 1
    /\ requestId = 2
    /\ pendingRequests = MapSet(MapSet(EmptyMap, 1, 1), 2, 2)
    /\ buffer = <<>>
    /\ procs = [w \in Workers |->
                   IF w = 1
                   THEN [st |-> "running", killed |-> FALSE, path |-> "prod",
                         by |-> "send",
                         stdin |-> stdinWrites("health", "{}", 1)
                                   \o stdinWrites("health", "{}", 2),
                         env |-> HostEnv]
                   ELSE NoProc]
    /\ promises = <<[method |-> "health", params |-> "{}", id |-> 1,
                     settled |-> <<>>],
                    [method |-> "health", params |-> "{}", id |-> 2,
                     settled |-> <<>>]>>

\* the lines a worker can write then: a result or an error for id 1, for
\* id 2 or for the id 3 that was never issued, or a brace that does not parse
PairFrames ==
    {ByteFrame(i, m) : i \in {"1", "2", "3"}, m \in {<<"r">>, <<"e">>}}
    \cup {<<"{", NL>>}

RECURSIVE PipesOver(_, _)
PipesOver(F, n) ==
    IF n = 0 THEN {<<>>}
    ELSE LET P == PipesOver(F, n - 1)
         IN P \cup {p \o f : p \in P, f \in F}

InitPair ==
    /\ TwoRequestsPending
    /\ pipe \in PipesOver(PairFrames, MaxFrames) \ {<<>>}
    /\ delivered = <<>>
    /\ trace = NoTrace
    /\ Alone

NextPair == deliverPipe

SpecPair == InitPair /\ [][NextPair]_vars


\* a session with restarts: a worker can terminate in the middle of a line;
\* a worker writes when the output of the workers before it has arrived,
\* so that every chunk holds the bytes of one worker
NextRestart ==
    \/ \E m \in Methods, p \in Params : send(m, p)
    \/ stop
    \/ \E w \in Workers : onExit(w)
    \/ \E w \in Workers : workerAbort(w)
    \/ /\ pipe = <<>>
       /\ \E w \in Workers : workerReply(w)
    \/ deliverPipe

SpecRestart == Init /\ [][NextRestart]_vars


\* the response lines for the pending id 1 with every combination of a
\* result member and an error member, in either order
BothFrames ==
    {ByteFrame("1", m) :
        m \in {<<>>, <<"r">>, <<"e">>, <<"r", "e">>, <<"e", "r">>}}

InitBoth ==
    /\ OneRequestPending
    /\ pipe \in PipesOver(BothFrames, MaxFrames) \ {<<>>}
    /\ delivered = <<>>
    /\ trace = NoTrace
    /\ Alone

\* the bridge receiving such lines, cut into chunks between any two bytes
NextBoth == deliverPipe

SpecBoth == InitBoth /\ [][NextBoth]_vars


\* two clients of one host, constructed one after the other with their own
\* credentials, in either order, each with its own bridge and no worker yet
InitCredentials ==
    /\ binaryPath = ""
    /\ fs = {"prod"}
    /\ child = 0
    /\ requestId = 0
    /\ pendingRequests = EmptyMap
    /\ buffer = <<>>
    /\ procs = [w \in Workers |-> NoProc]
    /\ promises = <<>>
    /\ pipe = <<>>
    /\ delivered = <<>>
    /\ trace = NoTrace
    /\ calls = <<>>
    /\ other = NewBridge("b", "")
    /\ env \in {construct(construct(HostEnv, Config("a")), Config("b")),
                construct(construct(HostEnv, Config("b")), Config("a"))}

\* the host calls operations of either client, MaxSends calls in all, and
\* stops them; workers exit
NextCredentials ==
    \/ /\ Len(promises) + Len(other.promises) < MaxSends
       /\ \E i \in FacadeInputs : facadeCall(i[1], i[2])
    \/ stop
    \/ \E w \in Workers : onExit(w)
    \/ switch

SpecCredentials == InitCredentials /\ [][NextCredentials]_vars

TypeOK ==
    /\ child \in 0..MaxWorkers
    /\ requestId \in 0..MaxSends
    /\ DOMAIN pendingRequests \subseteq 1..MaxSends
    /\ Len(buffer) <= MaxBuf

\* ================================================================= claims
Pending == DOMAIN pendingRequests
Settled(p) == promises[p].settled
Issued == {p \in 1..Len(promises) : promises[p].id # 0}

\* the outcome a parsed response gives the request it completes, and the
\* outcome a settlement has given
CallOf(response) ==
    [kind |-> IF response.error THEN "reject" ELSE "resolve",
     src |-> "frame",
     response |-> response]
Outcome(call) ==
    [kind |-> call.kind, src |-> call.src, response |-> call.response]

\* the first response carrying id among those parsed from one chunk
FirstFor(id, rpc) ==
    rpc[CHOOSE i \in 1..Len(rpc) :
            /\ rpc[i].id = id
            /\ \A j \in 1..(i - 1) : rpc[j].id # id]

\* C1: every request is completed at most once and only by a response
\* frame carrying its own id, with the outcome of that frame (reject iff
\* the frame has an error member); and whichever chunk arrives next, with
\* the requests outstanding in any order, it completes exactly the pending
\* requests whose id a response line of the chunk carries, each once and
\* with the outcome of that line, and leaves every other request pending
\* and unsettled.
C1_MatchedById ==
    /\ \A p \in 1..Len(promises) :
           /\ Len(Settled(p)) <= 1
           /\ \A k \in 1..Len(Settled(p)) :
                  Settled(p)[k].src = "frame" =>
                      /\ Settled(p)[k].response.id = promises[p].id
                      /\ Outcome(Settled(p)[k])
                             = CallOf(Settled(p)[k].response)
    /\ Pending # {} =>
           \A c \in Chunks :
               \E r \in {handleData(c)} :
                   \A id \in Pending :
                       LET p == pendingRequests[id]
                       IN IF \E i \in 1..Len(r.rpc) : r.rpc[i].id = id
                          THEN /\ id \notin DOMAIN r.pending
                               /\ Len(r.promises[p].settled) = 1
                               /\ Outcome(r.promises[p].settled[1])
                                      = CallOf(FirstFor(id, r.rpc))
                          ELSE /\ id \in DOMAIN r.pending
                               /\ r.pending[id] = p
                               /\ r.promises[p] = promises[p]

\* two requests outstanding, the later one completed first
C1_Witness ==
    /\ Len(promises) = 2
    /\ Pending = {1}
    /\ Len(Settled(2)) = 1
    /\ Settled(2)[1].response.id = 2

\* C2: when a worker exits, every request pending at that moment is
\* rejected, exactly once, by the time the exit listener has run.
C2_PendingRejectedOnExit ==
    [][\A w \in Workers :
           onExit(w) =>
               \A id \in Pending :
                   /\ id \notin DOMAIN pendingRequests'
                   /\ Len(promises'[pendingRequests[id]].settled) = 1
                   /\ promises'[pendingRequests[id]].settled[1].kind
                          = "reject"]_vars

\* C3: stop() rejects every pending request and leaves the pending map and
\* the accumulation buffer empty.
C3_StopRejectsPending ==
    [][stop =>
           /\ pendingRequests' = EmptyMap
           /\ buffer' = <<>>
           /\ \A id \in Pending :
                  /\ Len(promises'[pendingRequests[id]].settled) = 1
                  /\ promises'[pendingRequests[id]].settled[1].kind
                         = "reject"]_vars

\* C4: the ids allocated by send() start at 1 and are strictly increasing
\* in the order of the send() calls, hence never reused, whatever exits,
\* stops and restarts happened in between.
C4_IdsIncreasing ==
    /\ \A p \in Issued, q \in Issued :
           p < q => promises[p].id < promises[q].id
    /\ \A p \in Issued :
           (\A q \in Issued : p <= q) => promises[p].id = 1

\* two ids allocated, the second one after a restart of the worker
C4_Witness ==
    /\ Cardinality(Issued) = 2
    /\ Cardinality(Spawned) = 2
    /\ procs[2].stdin # <<>>
    /\ procs[2].stdin[1][1][4] = <<"id", 2>>

\* C5: as long as start() was never called explicitly and no worker has
\* exited or been stopped, the send() calls made so far have spawned
\* exactly one worker.
C5_LazyStartOnce ==
    ( /\ requestId >= 1
      /\ \A w \in Spawned :
             /\ procs[w].by = "send"
             /\ ~procs[w].killed
             /\ procs[w].st # "exited" )
    => Cardinality(Spawned) = 1

\* two requests issued before the first one completed, one worker
C5_Witness ==
    /\ Pending = {1, 2}
    /\ Cardinality(Spawned) = 1
    /\ procs[1].by = "send"
    /\ procs[1].st = "running"
    /\ Len(procs[1].stdin) = 2

\* C6: start() called while a worker is running changes nothing.
C6_StartIdempotent ==
    [][(start /\ child # 0 /\ procs[child].st = "running")
           => UNCHANGED vars]_vars

\* C7: at most one spawned, not yet exited worker is wired to the bridge.
C7_OneLiveWorker == Cardinality(Live) <= 1

\* C8 as stated: once a worker has exited or been stopped, no step spawns
\* another worker.
C8_TerminalAfterExitOrStop ==
    [][(\E w \in Workers : procs[w].st = "exited" \/ procs[w].killed)
           => Spawned' = Spawned]_vars

\* C8 amended: a worker is spawned only by an explicit start() or by a
\* send() made while the bridge holds no handle (never by the exit
\* listener, stop() or incoming data), and a send() made while the bridge
\* holds no handle, also after an exit or a stop, spawns one new worker
\* whenever an executable is found.
C8_SpawnOnlyOnDemand ==
    [][/\ Spawned' # Spawned =>
              \/ start
              \/ child = 0 /\ \E m \in Methods, p \in Params : send(m, p)
       /\ \A m \in Methods, p \in Params :
              (child = 0 /\ requestId' # requestId /\ send(m, p)) =>
                  /\ Cardinality(Spawned') = Cardinality(Spawned) + 1
                  /\ child' \in Spawned' \ Spawned]_vars

\* a worker has exited and a later send() has spawned another one
C8_Witness ==
    /\ procs[1].st = "exited"
    /\ procs[2].st = "running"
    /\ procs[2].by = "send"
    /\ child = 2

\* the candidate paths of this bridge, in rank order
Candidates ==
    (IF binaryPath # "" THEN <<binaryPath>> ELSE <<>>) \o <<"dev", "prod">>
NoCandidateExists == \A i \in 1..Len(Candidates) : Candidates[i] \notin fs
FirstExisting ==
    Candidates[CHOOSE i \in 1..Len(Candidates) :
                   /\ Candidates[i] \in fs
                   /\ \A j \in 1..(i - 1) : Candidates[j] \notin fs]

\* what a send() that fails at launch leaves behind: the call is rejected
\* and nothing else changes
LaunchFailure ==
    /\ Len(promises') = Len(promises) + 1
    /\ \A p \in 1..Len(promises) : promises'[p] = promises[p]
    /\ promises'[Len(promises')].id = 0
    /\ promises'[Len(promises')].settled = <<LaunchRejection>>
    /\ UNCHANGED <<child, requestId, pendingRequests, buffer, procs>>

\* C9 as stated: when no candidate path holds an executable, send() fails
\* with the launch error and changes nothing else.
C9_LaunchErrorNoCandidate ==
    [][\A m \in Methods, p \in Params :
           (child = 0 /\ NoCandidateExists /\ send(m, p))
               => LaunchFailure]_vars

\* C9 amended: when no explicit path was supplied and neither the
\* development path nor the installed path holds an executable, send()
\* fails with the launch error and changes nothing else.
C9_LaunchErrorNoDefault ==
    [][\A m \in Methods, p \in Params :
           (binaryPath = "" /\ "dev" \notin fs /\ "prod" \notin fs
                /\ send(m, p))
               => LaunchFailure]_vars

\* a send() has failed at launch and the bridge is as constructed
C9_Witness ==
    /\ binaryPath = ""
    /\ Len(promises) >= 1
    /\ Settled(1) = <<LaunchRejection>>
    /\ requestId = 0
    /\ Pending = {}
    /\ Spawned = {}

LaunchFailed == \E p \in 1..Len(promises) : LaunchRejection \in
                    {Settled(p)[k] : k \in 1..Len(Settled(p))}

\* C10 as stated: the worker spawned is the first candidate that exists,
\* and the launch error is raised iff no candidate exists.
C10_FirstExistingCandidate ==
    /\ \A w \in Spawned :
           ~NoCandidateExists /\ procs[w].path = FirstExisting
    /\ LaunchFailed => NoCandidateExists
    /\ NoCandidateExists => Spawned = {}

\* C10 amended: an explicitly supplied path is spawned as it is, whether
\* or not it exists; without one the development path is spawned if it
\* exists, else the installed path if it exists; the launch error is raised
\* iff no explicit path was supplied and neither of the two exists.
C10_ExplicitElseFirstExisting ==
    /\ \A w \in Spawned :
           IF binaryPath # "" THEN procs[w].path = binaryPath
           ELSE IF "dev" \in fs THEN procs[w].path = "dev"
           ELSE "prod" \in fs /\ procs[w].path = "prod"
    /\ LaunchFailed =>
           binaryPath = "" /\ "dev" \notin fs /\ "prod" \notin fs
    /\ (binaryPath = "" /\ "dev" \notin fs /\ "prod" \notin fs) =>
           /\ Spawned = {}
           /\ \A p \in 1..Len(promises) : Settled(p) = <<LaunchRejection>>

\* both default paths exist and the development build was spawned
C10_Witness ==
    /\ binaryPath = ""
    /\ {"dev", "prod"} \subseteq fs
    /\ child # 0
    /\ procs[child].path = "dev"
    /\ procs[child].st = "running"

\* ------------------------------------------------------- decoder claims
\* the lines the decoder has handled since the state before the step
NewHandled ==
    SubSeq(trace'.handled, Len(trace.handled) + 1, Len(trace'.handled))
NewDiag == SubSeq(trace'.diag, Len(trace.diag) + 1, Len(trace'.diag))
NewBytes == SubSeq(delivered', Len(delivered) + 1, Len(delivered'))

\* the first character of a line that is not white space, "" if none
FirstNonBlank(line) ==
    IF \A i \in 1..Len(line) : line[i] \in WhiteSpace THEN ""
    ELSE line[CHOOSE i \in 1..Len(line) :
                  /\ line[i] \notin WhiteSpace
                  /\ \A j \in 1..(i - 1) : line[j] \in WhiteSpace]

\* a line without the white space around it
Stripped(line) ==
    LET ix == {i \in 1..Len(line) : line[i] \notin WhiteSpace}
    IN IF ix = {} THEN <<>>
       ELSE SubSeq(line, CHOOSE i \in ix : \A j \in ix : i <= j,
                         CHOOSE i \in ix : \A j \in ix : j <= i)

NLCount(s) == Cardinality({i \in 1..Len(s) : s[i] = NL})

\* C11: however the worker output delivered so far was cut into chunks, the
\* lines handed to classification, what became of each, the diagnostics,
\* the completions of the requests and the buffer are those of delivering
\* the same output as one chunk.
C11_ChunkingIrrelevant ==
    \E whole \in {handleDataFrom(DecodeStart, toString(delivered))} :
        /\ buffer = whole.buffer
        /\ pendingRequests = whole.pending
        /\ promises = whole.promises
        /\ trace.handled = whole.handled
        /\ trace.diag = whole.diag

\* the response line for request 1 arrived in more than one chunk and
\* completed it
C11_Witness ==
    /\ trace.cut
    /\ delivered = <<"{", "1", "}", NL>>
    /\ buffer = <<>>
    /\ Pending = {}
    /\ Len(Settled(1)) = 1

\* C13: every complete line of the output is handled, and it is handled as
\* protocol traffic (parsed, and offered to the registry when it parses)
\* iff its first character that is not white space is '{', as diagnostic
\* text iff it has such a character and it is not '{', and as neither iff
\* it has none.
C13_Classification ==
    /\ Len(trace.handled) = NLCount(delivered)
    /\ \A i \in 1..Len(trace.handled) :
           LET h == trace.handled[i]
               c == FirstNonBlank(h.line)
           IN /\ h.as \in {"rpc", "invalid"} <=> c = "{"
              /\ h.as = "log" <=> (c # "" /\ c # "{")
              /\ h.as = "skip" <=> c = ""

\* a brace-led line was parsed, a line with other text was logged, an empty
\* line was skipped
C13_Witness ==
    /\ Len(trace.handled) = 3
    /\ trace.handled[1] = [line |-> <<"{", "}">>, as |-> "rpc"]
    /\ trace.handled[2] = [line |-> <<"1">>, as |-> "log"]
    /\ trace.handled[3] = [line |-> <<>>, as |-> "skip"]

\* C14 as stated: a data event whose complete lines all have a trimmed
\* content that does not start with '{' leaves the pending map, the
\* requests and the id counter unchanged and emits one diagnostic per line.
C14_OneEmissionPerLine ==
    [][(NewHandled # <<>>
          /\ \A i \in 1..Len(NewHandled) :
                 FirstNonBlank(NewHandled[i].line) # "{")
       => /\ pendingRequests' = pendingRequests
          /\ promises' = promises
          /\ requestId' = requestId
          /\ Len(NewDiag) = Len(NewHandled)]_vars

\* C14 amended: such a data event leaves the pending map, the requests and
\* the id counter unchanged and emits one diagnostic, the trimmed line, per
\* line that is not empty after trimming, and nothing for an empty one.
C14_NonBraceLineOnlyLogged ==
    [][(NewHandled # <<>>
          /\ \A i \in 1..Len(NewHandled) :
                 FirstNonBlank(NewHandled[i].line) # "{")
       => /\ pendingRequests' = pendingRequests
          /\ promises' = promises
          /\ requestId' = requestId
          /\ Len(NewDiag) =
                 Cardinality({i \in 1..Len(NewHandled) :
                                 FirstNonBlank(NewHandled[i].line) # ""})
          /\ \A k \in 1..Len(NewDiag) : NewDiag[k].kind = "log"
          /\ Len(NewHandled) = 1 =>
                 NewDiag = IF FirstNonBlank(NewHandled[1].line) = "" THEN <<>>
                           ELSE <<[kind |-> "log",
                                   text |-> Stripped(NewHandled[1].line)]>>]_vars

\* one line that does not start with a brace was logged, trimmed, and the
\* request is still pending
C14_Witness ==
    /\ trace.handled = <<[line |-> <<" ", "1", "}", " ">>, as |-> "log"]>>
    /\ trace.diag = <<[kind |-> "log", text |-> <<"1", "}">>]>>
    /\ Pending = {1}
    /\ Settled(1) = <<>>

\* C15: a data event handles every complete line it brings, also those
\* behind a brace-led line that does not parse; each such line adds one
\* "invalid" diagnostic and nothing else, so that an event none of whose
\* lines parses leaves the pending map and the requests unchanged.
C15_ParseFailureNotFatal ==
    [][/\ Len(NewHandled) = NLCount(NewBytes)
       /\ Cardinality({k \in 1..Len(NewDiag) : NewDiag[k].kind = "invalid"})
              = Cardinality({i \in 1..Len(NewHandled) :
                    /\ FirstNonBlank(NewHandled[i].line) = "{"
                    /\ ~JSONparse(Stripped(NewHandled[i].line)).ok})
       /\ (\A i \in 1..Len(NewHandled) :
               FirstNonBlank(NewHandled[i].line) = "{" =>
                   ~JSONparse(Stripped(NewHandled[i].line)).ok)
            => /\ pendingRequests' = pendingRequests
               /\ promises' = promises]_vars

\* one chunk brought a brace-led line that does not parse and, behind it,
\* the response that completed request 1
C15_Witness ==
    /\ ~trace.cut
    /\ trace.handled = <<[line |-> <<"{">>, as |-> "invalid"],
                         [line |-> <<"{", "1", "}">>, as |-> "rpc"]>>
    /\ trace.diag = <<[kind |-> "invalid", text |-> <<"{">>]>>
    /\ Pending = {}
    /\ Len(Settled(1)) = 1

\* -------------------------------------------------- response-frame claims
\* the lines handled as protocol traffic so far that bear the id of the
\* outstanding request, oldest first
RepliesTo1 ==
    SelectSeq(trace.handled,
              LAMBDA h : h.as = "rpc" /\ \E i \in 1..Len(h.line) : h.line[i] = "1")

\* the characters of a line that make up its result value
ResultIn(line) == SelectSeq(line, LAMBDA c : c \in ValueChars)

\* C12: when the whole pipe has arrived, the lines handled, the completions
\* and the buffer are those of the same bytes arriving as one chunk, also
\* when a chunk ended between the two bytes of a character.
C12_SplitCharacterIrrelevant ==
    pipe = <<>> =>
        \E whole \in {handleDataFrom(DecodeStart, toString(delivered))} :
            /\ buffer = whole.buffer
            /\ pendingRequests = whole.pending
            /\ promises = whole.promises
            /\ trace.handled = whole.handled

\* C16: a data event all of whose lines are well-formed responses with an
\* id that has no pending entry leaves the pending map, the id counter and
\* every request's outcome unchanged and emits nothing.
C16_UnmatchedDropped ==
    [][(NewHandled # <<>>
          /\ \A i \in 1..Len(NewHandled) :
                 /\ NewHandled[i].as = "rpc"
                 /\ JSONparse(Stripped(NewHandled[i].line)).id
                        \notin DOMAIN pendingRequests)
       => /\ pendingRequests' = pendingRequests
          /\ promises' = promises
          /\ requestId' = requestId
          /\ NewDiag = <<>>]_vars

\* a second response for request 1 arrived after the first had completed
\* it, and the outcome is still that of the first
C16_Witness ==
    /\ trace.cut
    /\ trace.handled = <<[line |-> <<"{", "1", "r", "}">>, as |-> "rpc"],
                         [line |-> <<"{", "1", "e", "}">>, as |-> "rpc"]>>
    /\ Pending = {}
    /\ Len(Settled(1)) = 1
    /\ Settled(1)[1].kind = "resolve"

\* C17: every rejection caused by a response frame carries the code and the
\* message of the frame's error object.
C17_RejectionCarriesErrorObject ==
    \A p \in 1..Len(promises) :
        \A k \in 1..Len(Settled(p)) :
            (Settled(p)[k].kind = "reject" /\ Settled(p)[k].src = "frame")
                => {"code", "message"} \subseteq Settled(p)[k].carries

\* C18: when the first response handled for the outstanding request
\* carries no error, the request is resolved, once, with the result value
\* of that line, whatever the value (true, null, false, a string), and its
\* pending entry is removed.
C18_ResolvesWithResult ==
    (RepliesTo1 # <<>>
       /\ \A i \in 1..Len(RepliesTo1[1].line) : RepliesTo1[1].line[i] # "e")
    => /\ Len(Settled(1)) = 1
       /\ Settled(1)[1].kind = "resolve"
       /\ Settled(1)[1].value = ResultIn(RepliesTo1[1].line)
       /\ Pending = {}

\* the request was resolved with null
C18_Witness ==
    /\ RepliesTo1 # <<>>
    /\ RepliesTo1[1].line = <<"{", "1", "n", "}">>
    /\ Len(Settled(1)) = 1
    /\ Settled(1)[1].kind = "resolve"
    /\ Settled(1)[1].value = <<"n">>

\* --------------------------------------------------- request-frame claims
\* the writes made to the input of any worker: which worker, which write
WriteSlots ==
    UNION {{<<w, k>> : k \in 1..Len(procs[w].stdin)} : w \in Workers}
WriteAt(s) == procs[s[1]].stdin[s[2]]
WritesOf(x) ==
    Cardinality({s \in WriteSlots : WriteAt(s) = x})
TotalWrites == Cardinality(WriteSlots)

\* the request line of a send() call with the given name of the version
\* member, followed by the line terminator
LineOf(p, version) ==
    <<<<<<version, "2.0">>, <<"method", promises[p].method>>,
        <<"params", promises[p].params>>, <<"id", promises[p].id>>>>, NL>>

\* C19 as stated: every send() call made so far wrote one request line with
\* the members protocolVersion "2.0", its method, its params and its id,
\* followed by a line terminator, and nothing else was written.
C19_ProtocolVersionFrame ==
    /\ TotalWrites = Len(promises)
    /\ \A p \in 1..Len(promises) : WritesOf(LineOf(p, "protocolVersion")) = 1

\* C19 amended: every send() call that got a worker (and so an id) wrote
\* one request line with the members jsonrpc "2.0", its method, its params
\* and its id, followed by a line terminator; a send() whose launch failed
\* wrote nothing; nothing else was written.
C19_OneRequestFramePerSend ==
    /\ TotalWrites = Cardinality({p \in 1..Len(promises) : promises[p].id # 0})
    /\ \A p \in 1..Len(promises) :
           promises[p].id # 0 => WritesOf(LineOf(p, "jsonrpc")) = 1

\* the first send("health", {}) wrote its line with id 1, a later
\* send("pay", ...) wrote its own method and params with id 2
C19_Witness ==
    /\ Len(promises) = 2
    /\ procs[1].stdin =
           <<<<<<<<"jsonrpc", "2.0">>, <<"method", "health">>,
                 <<"params", "{}">>, <<"id", 1>>>>, NL>>,
             <<<<<<"jsonrpc", "2.0">>, <<"method", "pay">>,
                 <<"params", "{amount:1}">>, <<"id", 2>>>>, NL>>>>

\* C20: every write to a worker's input hands over one whole request line
\* together with its line terminator, so that the content of the stream is
\* a concatenation of whole request lines.
C20_WholeLinePerWrite ==
    \A s \in WriteSlots :
        /\ Len(WriteAt(s)) = 2
        /\ WriteAt(s)[2] = NL
        /\ Len(WriteAt(s)[1]) = 4
        /\ \E p \in 1..Len(promises) :
               WriteAt(s)[1][4] = <<"id", promises[p].id>>

\* two requests were issued without waiting for a reply and their lines
\* stand whole, one behind the other, on the input of the same worker
C20_Witness ==
    /\ Pending = {1, 2}
    /\ Len(procs[1].stdin) = 2
    /\ procs[1].stdin[1][2] = NL
    /\ procs[1].stdin[2][2] = NL
    /\ procs[1].stdin[1][1][4] = <<"id", 1>>
    /\ procs[1].stdin[2][1][4] = <<"id", 2>>

\* ------------------------------------------------------- scenario claims
\* C21: with request 1 pending, when 'log: start' has arrived as one chunk
\* and 'ing up', a line terminator, the response with result true for id 1
\* and a line terminator arrive as the next chunk, the first chunk emits
\* nothing and the second exactly one diagnostic, with the text
\* 'log: starting up'; request 1 is resolved with true and the buffer is
\* empty afterwards.
C21_SplitLogThenResponse ==
    [][(/\ ~trace.cut
        /\ delivered = ChunkA
        /\ delivered' = ChunkA \o ChunkB(ByteFrame("1", <<"r">>)))
       => /\ trace.diag = <<>>
          /\ buffer = ChunkA
          /\ Pending = {1}
          /\ trace'.diag =
                 <<[kind |-> "log",
                    text |-> <<"l", "o", "g", ":", " ", "s", "t", "a", "r",
                               "t", "i", "n", "g", " ", "u", "p">>]>>
          /\ Len(promises'[1].settled) = 1
          /\ promises'[1].settled[1].kind = "resolve"
          /\ promises'[1].settled[1].value = <<"r">>
          /\ pendingRequests' = EmptyMap
          /\ buffer' = <<>>]_vars

\* the whole scenario has arrived in more than one chunk: one diagnostic,
\* request 1 resolved with true, buffer empty
C21_Witness ==
    /\ trace.cut
    /\ pipe = <<>>
    /\ delivered = ChunkA \o ChunkB(ByteFrame("1", <<"r">>))
    /\ Len(trace.diag) = 1
    /\ Len(Settled(1)) = 1
    /\ Settled(1)[1].value = <<"r">>
    /\ buffer = <<>>

\* ------------------------------------------------------ lifecycle claims
\* C22: when the process error event of a worker is handled, every request
\* pending at that moment is rejected and removed, and the event raises no
\* uncaught exception in the host.
C22_ErrorRejectsPending ==
    [][\A w \in Workers :
           (procs[w].st = "failed" /\ procs'[w].st # "failed")
           => /\ procs'[w].st = "errored"
              /\ \A id \in Pending :
                     /\ id \notin DOMAIN pendingRequests'
                     /\ promises'[pendingRequests[id]].settled # <<>>]_vars

\* ---------------------------------------------------------- facade claims
\* the settlements of the promise a facade call returned
FacadeOutcome(c) ==
    [k \in 1..Len(Settled(calls[c].promise)) |->
        completion(calls[c].op, Settled(calls[c].promise)[k])]

\* C23: every facade call made so far issued one send, and no send was
\* issued otherwise; the send carries the operation's fixed method name and
\* the caller's params ({} for health()), and the promise of the call is
\* settled exactly as the promise of that send: same kind, same value, same
\* error.
C23_FacadeIsOneSend ==
    /\ Len(promises) = Len(calls)
    /\ \A c \in 1..Len(calls) :
           /\ calls[c].promise = c
           /\ promises[c].method =
                  [pay |-> "pay", detectMethod |-> "detect_method",
                   health |-> "health"][calls[c].op]
           /\ promises[c].params =
                  IF calls[c].op = "health" THEN "{}" ELSE calls[c].params
           /\ FacadeOutcome(c) = Settled(c)

\* detectMethod was rejected by an error response, pay was resolved
C23_Witness ==
    /\ Len(calls) = 2
    /\ calls[1].op = "detectMethod"
    /\ calls[2].op = "pay"
    /\ Len(Settled(1)) = 1
    /\ Settled(1)[1].kind = "reject"
    /\ Settled(1)[1].src = "frame"
    /\ Len(Settled(2)) = 1
    /\ Settled(2)[1].kind = "resolve"

\* -------------------------------------------------------- instance claims
\* the ids a sequence of send() calls were given are 1, 2, ... in order
IdsFromOne(ps) ==
    \A p \in 1..Len(ps) :
        ps[p].id # 0 =>
            ps[p].id = Cardinality({q \in 1..p : ps[q].id # 0})

\* C24: a send, a data event, an exit or a stop on one Bridge instance
\* leaves every field of the other instance unchanged, its buffer, id
\* counter and pending map among them; turning from one instance to the
\* other changes no field of either; each instance gives its requests the
\* ids 1, 2, ... of its own.
C24_InstancesIndependent ==
    [][/\ other'.name = other.name => other' = other
       /\ other'.name # other.name =>
              /\ other' = ThisBridge(other'.name)
              /\ requestId' = other.requestId
              /\ pendingRequests' = other.pendingRequests
              /\ buffer' = other.buffer
       /\ IdsFromOne(promises')
       /\ IdsFromOne(other'.promises)]_vars

\* both instances have issued a request with id 1; this one has had its
\* request completed, the other's is still pending
C24_Witness ==
    /\ requestId = 1
    /\ other.requestId = 1
    /\ Pending = {}
    /\ Len(promises) = 1
    /\ Len(Settled(1)) = 1
    /\ DOMAIN other.pendingRequests = {1}
    /\ other.promises[1].settled = <<>>

\* C25: stop() leaves the bridge without a worker handle; when the bridge
\* held one, that worker, and no other, has been asked to terminate and
\* nothing else has changed; when it held none (never started, exited,
\* stopped), no state has changed.
C25_StopReleasesHandle ==
    [][stop =>
           /\ child' = 0
           /\ child # 0 =>
                  /\ procs'[child].killed
                  /\ \A w \in Workers \ {child} : procs'[w] = procs[w]
                  /\ procs'[child].st = procs[child].st
           /\ child = 0 => procs' = procs
           /\ UNCHANGED <<requestId, pendingRequests, buffer, promises>>]_vars

\* stop() was called on a bridge holding a running worker: the worker has
\* been asked to terminate and the handle is gone
C25_Witness ==
    /\ child = 0
    /\ procs[1].st = "running"
    /\ procs[1].killed

\* --------------------------------------------------------- session claims
\* the worker whose input the request line of send() call p was written to
WorkerOf(p) ==
    CHOOSE w \in Workers :
        \E k \in 1..Len(procs[w].stdin) :
            procs[w].stdin[k][1][4] = <<"id", promises[p].id>>

\* the ids of the response lines a step has handled
NewReplyIds ==
    {JSONparse(trim(trace'.handled[i].line)).id :
        i \in {j \in (Len(trace.handled) + 1)..Len(trace'.handled) :
                  trace'.handled[j].as = "rpc"}}

\* C26: once the exit of the worker a request was sent to has been
\* observed, nothing completes that request any more: output of the worker
\* that arrives later neither resolves nor rejects it.
C26_NoCompletionAfterExit ==
    [][\A p \in Issued :
           procs[WorkerOf(p)].st = "exited"
               => promises'[p].settled = promises[p].settled]_vars

\* C28: the pending map holds one entry per pending id, the entry of the
\* send() call that was given this id; every pending id lies in 1..counter;
\* an entry is removed only by a step that handles a response line
\* carrying its id.
C28_PendingMapDiscipline ==
    [][/\ DOMAIN pendingRequests' \subseteq 1..requestId'
       /\ \A id \in DOMAIN pendingRequests' :
              /\ pendingRequests'[id] \in 1..Len(promises')
              /\ promises'[pendingRequests'[id]].id = id
       /\ \A id \in DOMAIN pendingRequests \ DOMAIN pendingRequests' :
              id \in NewReplyIds]_vars

\* two requests were issued; the response for request 1 has removed its
\* entry and the entry of request 2 remains
C28_Witness ==
    /\ requestId = 2
    /\ Pending = {2}
    /\ Len(Settled(1)) = 1
    /\ Settled(2) = <<>>
    /\ \E i \in 1..Len(trace.handled) : trace.handled[i].as = "rpc"

\* C30 (second part): a request is pending only while the worker it was
\* sent to has not terminated.
C30_PendingOnlyWhileAwaited ==
    \A id \in Pending :
        procs[WorkerOf(pendingRequests[id])].st # "exited"

\* ------------------------------------------------------ completion claims
\* the send() calls a step has completed
Done ==
    {p \in 1..Len(promises) : promises'[p].settled # promises[p].settled}

\* C27: a data event completes no more requests than it brings complete
\* lines, and removes as many entries as it completes requests; when it
\* brings one line, an unparseable brace-led line or a response with an id
\* that is not pending completes no request and leaves the pending map
\* unchanged, and an error response for a pending id completes that request
\* alone and leaves every other entry and request unchanged.
C27_OneLineOneRequest ==
    [][/\ Cardinality(Done) <= Len(NewHandled)
       /\ Cardinality(DOMAIN pendingRequests \ DOMAIN pendingRequests')
              = Cardinality(Done)
       /\ \A p \in Done : Len(promises'[p].settled) = 1
       /\ Len(NewHandled) = 1 =>
              LET h == NewHandled[1]
                  r == JSONparse(Stripped(h.line))
              IN /\ (h.as = "invalid"
                       \/ (h.as = "rpc" /\ r.id \notin DOMAIN pendingRequests))
                     => /\ Done = {}
                        /\ pendingRequests' = pendingRequests
                 /\ (h.as = "rpc" /\ r.error
                       /\ r.id \in DOMAIN pendingRequests)
                     => /\ Done = {pendingRequests[r.id]}
                        /\ DOMAIN pendingRequests'
                               = DOMAIN pendingRequests \ {r.id}
                        /\ \A i \in DOMAIN pendingRequests' :
                               pendingRequests'[i] = pendingRequests[i]]_vars

\* an error response has rejected request 1 and left request 2 pending
C27_Witness ==
    /\ Pending = {2}
    /\ Len(Settled(1)) = 1
    /\ Settled(1)[1].kind = "reject"
    /\ Settled(2) = <<>>
    /\ pendingRequests[2] = 2

\* ---------------------------------------------------------- buffer claims
\* the handled lines, each with its line terminator, one behind the other
RECURSIVE Joined(_)
Joined(h) ==
    IF h = <<>> THEN <<>>
    ELSE Head(h).line \o <<NL>> \o Joined(Tail(h))

\* the position of the last line terminator of a text, 0 if it has none
LastNL(text) ==
    IF \A i \in 1..Len(text) : text[i] # NL THEN 0
    ELSE CHOOSE i \in 1..Len(text) :
             text[i] = NL /\ \A j \in (i + 1)..Len(text) : text[j] # NL

\* C29: after a chunk is processed the buffer is the text behind the last
\* line terminator of (previous buffer + chunk), and the lines handled for
\* the chunk are, in order and each once, the text before it: nothing of an
\* incomplete last segment is handled and nothing of it is lost.
C29_BufferIsTail ==
    [][LET text == buffer \o NewBytes
       IN /\ buffer' = SubSeq(text, LastNL(text) + 1, Len(text))
          /\ Joined(NewHandled) = SubSeq(text, 1, LastNL(text))]_vars

\* a complete line has been handled and the start of the next line, which
\* arrived with it or behind it, is kept in the buffer
C29_Witness ==
    /\ trace.cut
    /\ delivered = <<"1", NL, "{", "1">>
    /\ Len(trace.handled) = 1
    /\ trace.handled[1].line = <<"1">>
    /\ buffer = <<"{", "1">>

\* ------------------------------------------------------ heuristic claims
\* the handled lines that begin with a brace, parse as an object and carry
\* the id of the request of promise p
BraceLedFor(p) ==
    {i \in 1..Len(trace.handled) :
        /\ FirstNonBlank(trace.handled[i].line) = "{"
        /\ JSONparse(trim(trace.handled[i].line)).ok
        /\ JSONparse(trim(trace.handled[i].line)).id = promises[p].id}

\* C31: a request is completed exactly when a line of the worker that
\* begins with a brace, parses as an object and carries its id has been
\* handled, whatever else the object holds (a log record with neither a
\* result nor an error included), it is completed once, by the first such
\* line; brace-led lines that carry no id or another id complete nothing.
C31_BraceLedLineCompletes ==
    \A p \in Issued :
        /\ Len(Settled(p)) <= 1
        /\ (Settled(p) # <<>>) <=> (BraceLedFor(p) # {})
        /\ Settled(p) # <<>> =>
               \E i \in BraceLedFor(p) :
                   /\ \A j \in BraceLedFor(p) : i <= j
                   /\ Settled(p)[1].response
                          = JSONparse(trim(trace.handled[i].line))

\* a brace-led line with the id 2 that no request has was handled and
\* completed nothing, then a brace-led record with the id 1 and neither a
\* result nor an error completed request 1
C31_Witness ==
    /\ Len(trace.handled) = 2
    /\ trace.handled[1].line = <<"{", "2", "}">>
    /\ trace.handled[2].line = <<"{", "1", "}">>
    /\ Len(Settled(1)) = 1
    /\ ~Settled(1)[1].response.result
    /\ ~Settled(1)[1].response.error
    /\ Pending = {}

\* --------------------------------------------------- conservation claims
\* the send() calls that were given the id
CallsWith(id) == {p \in 1..Len(promises) : promises[p].id = id}

\* C32: every id from 1 to the counter belongs to one send() call, which is
\* either pending (its entry is in the map and it has no completion) or
\* completed exactly once (and its entry is gone); the pending entries and
\* the completed requests together are as many as the counter says.
C32_Conservation ==
    /\ \A id \in 1..requestId :
           /\ Cardinality(CallsWith(id)) = 1
           /\ \A p \in CallsWith(id) :
                  IF id \in Pending
                  THEN pendingRequests[id] = p /\ Settled(p) = <<>>
                  ELSE Len(Settled(p)) = 1
    /\ Cardinality(Pending)
           + Cardinality({p \in Issued : Settled(p) # <<>>}) = requestId

\* of two requests the second was rejected by an error response and the
\* first is still pending after its worker has exited
C32_Witness ==
    /\ requestId = 2
    /\ Pending = {1}
    /\ Len(Settled(2)) = 1
    /\ Settled(2)[1].kind = "reject"
    /\ Settled(1) = <<>>
    /\ \E w \in Workers : procs[w].st = "exited"

\* ------------------------------------------------------- late exit claims
\* C33: when a worker that stop() has killed exits after a send() has
\* started a new worker, the exit leaves the handle of the new worker in
\* place, so that the bridge keeps the worker it started after stop().
C33_LateExitKeepsHandle ==
    [][\A w \in Workers :
           (/\ procs[w].killed
            /\ procs[w].st = "running"
            /\ procs'[w].st = "exited"
            /\ child # 0
            /\ child # w
            /\ procs[child].by = "send")
               => child' = child]_vars

\* --------------------------------------------------------- restart claims
\* the complete lines the workers write: a response to a request issued
WrittenLines ==
    {<<"{", Digits[id]>> \o m \o <<"}">> :
        id \in 1..requestId, m \in {<<"r">>, <<"e">>}}

\* C34: every line the decoder handles is a line as one worker wrote it:
\* what a terminated worker left of an unfinished line is not put in front
\* of the first line of a worker started later.
C34_NoCarryOverBetweenWorkers ==
    \A i \in 1..Len(trace.handled) : trace.handled[i].line \in WrittenLines

\* -------------------------------------------------------- ordering claims
\* the ids of the request lines written to the input of worker w, in the
\* order they were written
IdsWritten(w) ==
    [k \in 1..Len(procs[w].stdin) |-> procs[w].stdin[k][1][4][2]]

\* the ids that have been registered: pending, or completed since
Registered ==
    Pending \cup {promises[p].id : p \in {q \in Issued : Settled(q) # <<>>}}

\* C35: every request line on a worker's input carries an id that send()
\* has registered, the ids of the lines of one worker increase strictly in
\* the order written, and those of a worker started later are larger;
\* therefore every response line a worker has written answers a registered
\* id.
C35_RegisteredBeforeWritten ==
    /\ \A w \in Workers :
           /\ \A k \in 1..Len(procs[w].stdin) : IdsWritten(w)[k] \in Registered
           /\ \A j, k \in 1..Len(procs[w].stdin) :
                  j < k => IdsWritten(w)[j] < IdsWritten(w)[k]
    /\ \A v, w \in Workers :
           v < w => \A j \in 1..Len(procs[v].stdin),
                       k \in 1..Len(procs[w].stdin) :
                            IdsWritten(v)[j] < IdsWritten(w)[k]
    /\ \A c \in Answered : IdVal(c) \in Registered

\* one worker was sent the requests 1 and 2 in this order and its response
\* to request 2 is on the way while both are pending
C35_Witness ==
    /\ Len(procs[1].stdin) = 2
    /\ IdsWritten(1) = <<1, 2>>
    /\ Pending = {1, 2}
    /\ pipe # <<>>
    /\ Answered = {"2"}

\* ------------------------------------------------------ precedence claims
Has(line, c) == \E i \in 1..Len(line) : line[i] = c

\* C36: a request is completed at most once, by the first response line
\* for its id: rejected when that line has an error member, also when it
\* has a result member as well, resolved otherwise, with an absent value
\* when the line has neither member; its entry is then gone for good.
C36_ErrorTakesPrecedence ==
    \A p \in Issued :
        /\ Len(Settled(p)) <= 1
        /\ BraceLedFor(p) # {} =>
               \E i \in BraceLedFor(p) :
                   LET line == trace.handled[i].line
                   IN /\ \A j \in BraceLedFor(p) : i <= j
                      /\ Len(Settled(p)) = 1
                      /\ promises[p].id \notin Pending
                      /\ Settled(p)[1].kind =
                             IF Has(line, "e") THEN "reject" ELSE "resolve"
                      /\ (~Has(line, "e") /\ ~Has(line, "r")) =>
                             Settled(p)[1].value = <<>>
                      /\ (~Has(line, "e") /\ Has(line, "r")) =>
                             Settled(p)[1].value = <<"r">>

\* a line with a result and an error has rejected request 1, and a later
\* line with a result alone has changed nothing
C36_Witness ==
    /\ Len(trace.handled) = 2
    /\ trace.handled[1].line = <<"{", "1", "r", "e", "}">>
    /\ trace.handled[2].line = <<"{", "1", "r", "}">>
    /\ Len(Settled(1)) = 1
    /\ Settled(1)[1].kind = "reject"
    /\ Pending = {}

\* ----------------------------------------------------- credential claims
\* C37: the environment of every worker holds the credentials that were
\* passed to the constructor of the client whose bridge spawned it.
C37_WorkerGetsOwnCredentials ==
    /\ \A w \in Workers :
           procs[w].st # "none" =>
               procs[w].env = construct(HostEnv, Config(ThisName))
    /\ \A w \in Workers :
           other.procs[w].st # "none" =>
               other.procs[w].env = construct(HostEnv, Config(other.name))

====
